---- MODULE Spec2Model ----
(***************************************************************************)
(* Model of the realtime gateway client, src/state/ws/mod.rs:              *)
(* the WebsocketClient handle (new, update_token, connect, recieve_message,*)
(* send_message, close) and the worker task that connect() spawns          *)
(* (handshake, then the three-way select loop).                            *)
(*                                                                         *)
(* Option<T> is a sequence: None is << >>, Some(x) is <<x>>.               *)
(* A JSON value is a sequence of strings; the text of an envelope is the   *)
(* sequence <<op>> \o text-of-d.                                           *)
(***************************************************************************)
EXTENDS Integers, Sequences, FiniteSets, TLC

\* ------------------------------------------------------------------ bounds
MaxWorkers == 2      \* connect() calls explored (one worker task per call)
MaxTime == 2         \* last instant of the clock
MaxWire == 3         \* frames written to the transport in one session
MaxAccepted == 2     \* commands accepted by send_message in one session
MaxDispatch == 2     \* values pushed towards the inbound channel in one session
MaxStray == 1        \* frames written by tasks that connect() left detached

Workers == 1..MaxWorkers

None == << >>
Some(x) == <<x>>

\* --------------------------------------------------------------- constants
HOP_LEAP_EDGE_PROJECT_ID == "project_MzA0MDgwOTQ2MDEwODQ5NzQ"

\* inputs
Tokens == {"tok1"}
Numerals == <<"1", "2", "3", "4">>
\* the k-th command the caller sends and the k-th payload the remote
\* dispatches: all different, so that a loss, a duplicate or a swap shows
Command(k) == <<"cmd", Numerals[k]>>
Payload(k) == <<"data", Numerals[k]>>
Tags == {<<"tag", "abc">>}
Intervals == {"1", "2"}

\* ------------------------------------------------------------ wire codec
JNull == <<"null">>

\* serde_json::to_string of an Option<Value>: None is written as null
value_to_string(opt) == IF opt = None THEN JNull ELSE opt[1]

\* serde_json::from_str::<Option<Value>>: null is read back as None
value_from_str(text) == IF text = JNull THEN None ELSE Some(text)

\* serde_json::to_string(&SocketMessage { op, d })
to_string(op, d) == <<op>> \o value_to_string(d)

\* LeapEdgeAuthParams { project_id, token } as a JSON value
AuthParams(token) == <<"project_id", HOP_LEAP_EDGE_PROJECT_ID, "token", token>>

Flatten(oo) == IF oo = None THEN None ELSE oo[1]

OpCodes == {"Hello", "Identify", "Heartbeat", "HeartbeatAck", "Dispatch"}

\* tungstenite Message variants
Text(text) == [kind |-> "Text", body |-> text]
Binary(bin) == [kind |-> "Binary", body |-> bin]
Close == [kind |-> "Close", body |-> << >>]
Ping == [kind |-> "Ping", body |-> << >>]

\* a zlib stream: header, deflated data, checksum trailer
Deflate(text) == <<"zlib">> \o text \o <<"adler32">>
Truncate(bin) == SubSeq(bin, 1, Len(bin) - 1)

\* a decoder that takes a stream without its trailer as complete
InflateOk_Lenient(bin) == Len(bin) >= 2 /\ bin[1] = "zlib"

\* ZlibDecoder::read_to_end: fails on a stream without its trailer
InflateOk(bin) == Len(bin) >= 2 /\ bin[1] = "zlib" /\ bin[Len(bin)] = "adler32"

\* an inflater handing the stream's trailer on as data
Inflate_KeepsTrailer(bin) == Tail(bin)
Inflate(bin) == SubSeq(bin, 2, Len(bin) - 1)

\* a parse that panics, and the panic's message
Failed(msg) == [ok |-> FALSE, op |-> "", d |-> None, err |-> msg]
Parsed(op, d) == [ok |-> TRUE, op |-> op, d |-> d, err |-> ""]

UnwrapNone == "called Option::unwrap() on a None value"
UnwrapErr == "called Result::unwrap() on an Err value"

\* serde_json::from_str::<SocketMessage<Value>>(text).expect(msg)
from_str(text, msg) ==
    IF Len(text) >= 2 /\ text[1] \in OpCodes
    THEN Parsed(text[1], value_from_str(Tail(text)))
    ELSE Failed(msg)

\* serde_json::from_str::<SocketMessage<SocketHello>>(text).expect(msg): d is
\* null or an object with a heartbeat_interval; the op is not restricted to Hello
from_str_hello(text, msg) ==
    LET m == from_str(text, msg) IN
    IF m.ok /\ (m.d = None \/ (Len(m.d[1]) = 2 /\ m.d[1][1] = "heartbeat_interval"
                                /\ m.d[1][2] \in Intervals))
    THEN m ELSE Failed(msg)

\* the number held by a heartbeat_interval text
ParseInt(str) == CASE str = "1" -> 1 [] str = "2" -> 2 [] OTHER -> 0

\* serde_json::from_str::<T>, T being SocketMessage<SocketHello> or
\* SocketMessage<Value>
from_str_as(T, text, msg) ==
    IF T = "SocketHello" THEN from_str_hello(text, msg) ELSE from_str(text, msg)

\* parse_message with the frames of other kinds passed over instead of panicking
parse_with_OthersIgnored(message, T) ==
    CASE message.kind = "Text" -> from_str_as(T, message.body, "Failed to parse message")
      [] message.kind = "Binary" ->
            IF InflateOk(message.body)
            THEN from_str_as(T, Inflate(message.body), "Failed to deflate message")
            ELSE Failed("Failed to read message")
      [] message.kind = "Close" -> Failed("Socket closed unexpectedly")
      [] OTHER -> Parsed("Identify", None)

\* parse_message with a Close frame passed over as a message of no interest
parse_with_CloseIgnored(message, T) ==
    CASE message.kind = "Text" -> from_str_as(T, message.body, "Failed to parse message")
      [] message.kind = "Binary" ->
            IF InflateOk(message.body)
            THEN from_str_as(T, Inflate(message.body), "Failed to deflate message")
            ELSE Failed("Failed to read message")
      [] message.kind = "Close" -> Parsed("Identify", None)
      [] OTHER -> Failed("received unexpected message type")

\* parse_message::<T>: the result, or ok = FALSE where the code panics
parse_with(message, T) ==
    CASE message.kind = "Text" -> from_str_as(T, message.body, "Failed to parse message")
      [] message.kind = "Binary" ->
            IF InflateOk(message.body)
            THEN from_str_as(T, Inflate(message.body), "Failed to deflate message")
            ELSE Failed("Failed to read message")
      [] message.kind = "Close" -> Failed("Socket closed unexpectedly")
      [] OTHER -> Failed("received unexpected message type")

parse_message(message) == parse_with(message, "Value")
parse_message_hello(message) == parse_with(message, "SocketHello")

\* ------------------------------------------------- what the remote can do
HelloPayloads == {<<"heartbeat_interval", i>> : i \in Intervals}

\* envelope texts the remote sends at any time, and a malformed text;
\* k numbers the next Dispatch
Envelopes(k) ==
    {to_string("Hello", Some(<<"heartbeat_interval", "1">>)),
     to_string("Dispatch", Some(Payload(k))),
     to_string("HeartbeatAck", None),
     to_string("Identify", None),
     <<"{">>}
    \cup {to_string("Heartbeat", Some(t)) : t \in Tags}

\* texts tried as the first message of a session
FirstEnvelopes ==
    Envelopes(1) \cup {to_string("Hello", Some(p)) : p \in HelloPayloads}
                 \cup {to_string("Dispatch", Some(p)) : p \in HelloPayloads}
                 \cup {to_string("Hello", None)}

\* the texts also sent compressed, and cut short
Compressed(texts) == {e \in texts : e[1] \in {"Hello", "Dispatch", "HeartbeatAck"}}
CutShort(texts) == {e \in texts : e[1] \in {"Hello", "Dispatch"}}

FramesOf(texts) ==
    {Text(e) : e \in texts}
    \cup {Binary(Deflate(e)) : e \in Compressed(texts)}
    \cup {Binary(Truncate(Deflate(e))) : e \in CutShort(texts)}
    \cup {Close, Ping}

\* results of receiver.next(): end of stream, a read error, or a frame
EventsOf(texts) ==
    {[t |-> "end", f |-> Close], [t |-> "err", f |-> Close]}
    \cup {[t |-> "frame", f |-> fr] : fr \in FramesOf(texts)}

FirstEvents == EventsOf(FirstEnvelopes)
Events(k) == EventsOf(Envelopes(k))

\* ------------------------------------------------------------------ state
\* A session is what one connect() call creates: two channels, a task and
\* the task's transport.  The buffers and the histories below are those of
\* the latest session; connect() starts them afresh.
VARIABLES
    auth,                          \* WebsocketClient.auth
    thread,                        \* WebsocketClient.thread: Some(task id)
    channels,                      \* WebsocketClient.channels: Some(id of the pair)
    last_heartbeat_acknowledged,   \* the handle's field
    heartbeat_instants,            \* the handle's field: <<sent_at, acked_at>>
    task,                          \* the tasks spawned by connect(), by id
    outbound,                      \* buffer of the outbound channel (capacity 1)
    inbound,                       \* buffer of the inbound channel (capacity 1)
    wire,                          \* texts the session's task wrote to its transport
    accepted,                      \* texts send_message put on the outbound channel
    dispatched,                    \* Dispatch payload texts the session's task processed
    returned,                      \* texts recieve_message took from the inbound channel
    stray,                         \* frames written by detached tasks
    last                           \* how the last call on the handle ended: "Ok" for
                                   \* Ok(_), Some(_) and (), else "None" or the error

handle == <<auth, thread, channels, last_heartbeat_acknowledged, heartbeat_instants>>
vars == <<auth, thread, channels, last_heartbeat_acknowledged, heartbeat_instants,
          task, outbound, inbound, wire, accepted, dispatched, returned, stray,
          last>>

\* WebsocketClient::new(): Default::default() with last_heartbeat_acknowledged = true
NewHandle == <<None, None, None, TRUE, <<None, None>> >>

Unspawned ==
    [pc |-> "unspawned", socket_auth |-> None,
     last_heartbeat_acknowledged |-> FALSE, heartbeat_instants |-> <<None, None>>,
     period |-> 0, deadline |-> 0, now |-> 0, pending |-> None, end |-> ""]

Init ==
    /\ auth = None
    /\ thread = None
    /\ channels = None
    /\ last_heartbeat_acknowledged = TRUE
    /\ heartbeat_instants = <<None, None>>
    /\ task = [w \in Workers |-> Unspawned]
    /\ outbound = << >>
    /\ inbound = << >>
    /\ wire = << >>
    /\ accepted = << >>
    /\ dispatched = << >>
    /\ returned = << >>
    /\ stray = 0
    /\ last = "Ok"

\* a task without its captured state: its future was dropped ("terminated":
\* it panicked or close() aborted it), or it runs on detached ("detached").
\* end is the panic's message, which the task's JoinHandle holds: it is gone
\* once close() or connect() dropped the JoinHandle
Dropped(pc, end) == [Unspawned EXCEPT !.pc = pc, !.end = end]

\* the task's future still exists: it holds receiver_outbound and sender_inbound
Running(w) == task[w].pc \notin {"unspawned", "terminated"}

\* the task of the latest session, followed step by step
Followed(w) == Running(w) /\ task[w].pc # "detached"

\* the handle still holds the endpoints of the channels created with task w
Held(w) == channels = Some(w)

\* a panic in the task: the future is dropped, and with it receiver_outbound
\* (its buffered messages) and sender_inbound
Panic(w, msg) ==
    /\ task' = [task EXCEPT ![w] = Dropped("terminated", msg)]
    /\ outbound' = << >>

\* the bounds on the histories
WireRoom == Len(wire) < MaxWire
AcceptRoom == Len(accepted) < MaxAccepted
DispatchRoom ==
    /\ Len(dispatched) < MaxDispatch
    /\ Len(returned) + Len(inbound) < MaxDispatch

\* sender.send(text): one more text frame on the transport
Write(text) == wire' = Append(wire, text)

\* what a step of the task leaves alone: the handle and the caller's side
CallerSide == <<auth, thread, channels, last_heartbeat_acknowledged,
                heartbeat_instants, accepted, returned, stray, last>>

\* --------------------------------------------------------------- the task
\* utils::connect().await.expect(..): the transport opens, or the task panics
OpenTransport(w) ==
    /\ task[w].pc = "connecting"
    /\ \E ok \in BOOLEAN :
          IF ok
          THEN /\ task' = [task EXCEPT ![w].pc = "await_hello"]
               /\ UNCHANGED outbound
          ELSE Panic(w, "Failed to connect to websocket")
    /\ UNCHANGED <<inbound, wire, dispatched>>
    /\ UNCHANGED CallerSide

\* the handshake without line 91: the interval's immediate first tick is left
\* for the event loop
FirstMessage_TickKept(w, ev) ==
    /\ task[w].pc = "await_hello"
    /\ LET hello == parse_message_hello(ev.f) IN
       CASE ev.t # "frame" -> Panic(w, "Error reading from socket")
         [] ev.t = "frame" /\ ~hello.ok -> Panic(w, hello.err)
         [] ev.t = "frame" /\ hello.ok /\ hello.d = None -> Panic(w, UnwrapNone)
         [] OTHER ->
               LET htb == ParseInt(hello.d[1][2]) IN
               /\ task' = [task EXCEPT ![w].pc = "identify",
                                       ![w].period = htb,
                                       ![w].deadline = 0,
                                       ![w].now = 0]
               /\ UNCHANGED outbound
    /\ UNCHANGED <<inbound, wire, dispatched>>
    /\ UNCHANGED CallerSide

\* the first message is parsed as SocketMessage<SocketHello>, its d unwrapped,
\* the interval created and its first (immediate) tick consumed
FirstMessage(w, ev) ==
    /\ task[w].pc = "await_hello"
    /\ LET hello == parse_message_hello(ev.f) IN
       CASE ev.t # "frame" -> Panic(w, "Error reading from socket")
         [] ev.t = "frame" /\ ~hello.ok -> Panic(w, hello.err)
         [] ev.t = "frame" /\ hello.ok /\ hello.d = None -> Panic(w, UnwrapNone)
         [] OTHER ->
               LET htb == ParseInt(hello.d[1][2]) IN
               /\ task' = [task EXCEPT ![w].pc = "identify",
                                       ![w].period = htb,
                                       ![w].deadline = htb,
                                       ![w].now = 0]
               /\ UNCHANGED outbound
    /\ UNCHANGED <<inbound, wire, dispatched>>
    /\ UNCHANGED CallerSide

AwaitHello(w) == \E ev \in FirstEvents : FirstMessage(w, ev)

\* sender_outbound.send(identify).await: waits for room in the outbound channel
Identify(w) ==
    /\ task[w].pc = "identify"
    /\ Len(outbound) < 1
    /\ outbound' = Append(outbound,
                          to_string("Identify", Flatten(Some(task[w].socket_auth))))
    \* socket_auth is moved into the message
    /\ task' = [task EXCEPT ![w].pc = "loop", ![w].socket_auth = None]
    /\ UNCHANGED <<inbound, wire, dispatched>>
    /\ UNCHANGED CallerSide

\* sender_inbound.try_send(text) in place of send(text).await: a text that
\* finds the channel full is dropped
SendInbound_Dropped(w, kind, text) ==
    IF ~Held(w)
    THEN /\ IF kind = "sentinel"
            THEN Panic(w, UnwrapErr)
            ELSE /\ task' = [task EXCEPT ![w].pc = "loop", ![w].pending = None]
                 /\ UNCHANGED outbound
         /\ UNCHANGED inbound
    ELSE IF Len(inbound) < 1
    THEN /\ inbound' = Append(inbound, text)
         /\ task' = [task EXCEPT ![w].pc = "loop", ![w].pending = None]
         /\ UNCHANGED outbound
    ELSE /\ task' = [task EXCEPT ![w].pc = "loop", ![w].pending = None]
         /\ UNCHANGED <<outbound, inbound>>

\* sender_inbound.send(text).await inside branch 1, from pc = "loop" or resumed:
\* an error once the handle dropped the receiver (.ok() for a Dispatch,
\* .unwrap() for the sentinel); the text is buffered when there is room;
\* otherwise the task stays suspended in the send, kind telling which one
SendInbound(w, kind, text) ==
    IF ~Held(w)
    THEN /\ IF kind = "sentinel"
            THEN Panic(w, UnwrapErr)
            ELSE /\ task' = [task EXCEPT ![w].pc = "loop", ![w].pending = None]
                 /\ UNCHANGED outbound
         /\ UNCHANGED inbound
    ELSE IF Len(inbound) < 1
    THEN /\ inbound' = Append(inbound, text)
         /\ task' = [task EXCEPT ![w].pc = "loop", ![w].pending = None]
         /\ UNCHANGED outbound
    ELSE /\ task' = [task EXCEPT ![w].pc = kind, ![w].pending = Some(text)]
         /\ UNCHANGED <<outbound, inbound>>

\* branch 1 with a message of another op taken as a protocol violation
Inbound_OtherOpFatal(w, ev) ==
    /\ task[w].pc = "loop"
    /\    LET m == parse_message(ev.f) IN
          CASE ev.t = "end" ->
                  UNCHANGED <<task, outbound, inbound, wire, dispatched>>
            [] ev.t = "err" ->
                  /\ DispatchRoom
                  /\ SendInbound(w, "sentinel", JNull)
                  /\ UNCHANGED <<wire, dispatched>>
            [] ev.t = "frame" /\ ~m.ok ->
                  Panic(w, m.err) /\ UNCHANGED <<inbound, wire, dispatched>>
            [] ev.t = "frame" /\ m.ok /\ m.op = "HeartbeatAck" ->
                  \E debug \in BOOLEAN :
                     IF debug /\ task[w].heartbeat_instants[1] = None
                     THEN Panic(w, UnwrapNone) /\ UNCHANGED <<inbound, wire, dispatched>>
                     ELSE /\ task' = [task EXCEPT
                                        ![w].last_heartbeat_acknowledged = TRUE,
                                        ![w].heartbeat_instants[2] = Some(task[w].now)]
                          /\ UNCHANGED <<outbound, inbound, wire, dispatched>>
            [] ev.t = "frame" /\ m.ok /\ m.op = "Heartbeat" ->
                  /\ WireRoom
                  /\ \E ok \in BOOLEAN :
                        IF ok THEN Write(to_string("Heartbeat", m.d))
                              ELSE UNCHANGED wire
                  /\ UNCHANGED <<task, outbound, inbound, dispatched>>
            [] ev.t = "frame" /\ m.ok /\ m.op = "Dispatch" ->
                  /\ DispatchRoom
                  /\ SendInbound(w, "deliver", value_to_string(m.d))
                  /\ dispatched' = Append(dispatched, value_to_string(m.d))
                  /\ UNCHANGED wire
            [] OTHER ->
                  Panic(w, "unexpected op") /\ UNCHANGED <<inbound, wire, dispatched>>
    /\ UNCHANGED CallerSide

\* branch 1 with the HeartbeatAck arm storing its instant in heartbeat_instants.0
Inbound_AckOverSent(w, ev) ==
    /\ task[w].pc = "loop"
    /\    LET m == parse_message(ev.f) IN
          CASE ev.t = "end" ->
                  UNCHANGED <<task, outbound, inbound, wire, dispatched>>
            [] ev.t = "err" ->
                  /\ DispatchRoom
                  /\ SendInbound(w, "sentinel", JNull)
                  /\ UNCHANGED <<wire, dispatched>>
            [] ev.t = "frame" /\ ~m.ok ->
                  Panic(w, m.err) /\ UNCHANGED <<inbound, wire, dispatched>>
            [] ev.t = "frame" /\ m.ok /\ m.op = "HeartbeatAck" ->
                  \E debug \in BOOLEAN :
                     IF debug /\ task[w].heartbeat_instants[1] = None
                     THEN Panic(w, UnwrapNone) /\ UNCHANGED <<inbound, wire, dispatched>>
                     ELSE /\ task' = [task EXCEPT
                                        ![w].last_heartbeat_acknowledged = TRUE,
                                        ![w].heartbeat_instants[1] = Some(task[w].now)]
                          /\ UNCHANGED <<outbound, inbound, wire, dispatched>>
            [] ev.t = "frame" /\ m.ok /\ m.op = "Heartbeat" ->
                  /\ WireRoom
                  /\ \E ok \in BOOLEAN :
                        IF ok THEN Write(to_string("Heartbeat", m.d))
                              ELSE UNCHANGED wire
                  /\ UNCHANGED <<task, outbound, inbound, dispatched>>
            [] ev.t = "frame" /\ m.ok /\ m.op = "Dispatch" ->
                  /\ DispatchRoom
                  /\ SendInbound(w, "deliver", value_to_string(m.d))
                  /\ dispatched' = Append(dispatched, value_to_string(m.d))
                  /\ UNCHANGED wire
            [] OTHER ->
                  UNCHANGED <<task, outbound, inbound, wire, dispatched>>
    /\ UNCHANGED CallerSide

\* select branch 1: receiver.next() yielded ev
Inbound(w, ev) ==
    /\ task[w].pc = "loop"
    /\    LET m == parse_message(ev.f) IN
          CASE ev.t = "end" ->
                  UNCHANGED <<task, outbound, inbound, wire, dispatched>>
            [] ev.t = "err" ->
                  /\ DispatchRoom
                  /\ SendInbound(w, "sentinel", JNull)
                  /\ UNCHANGED <<wire, dispatched>>
            [] ev.t = "frame" /\ ~m.ok ->
                  Panic(w, m.err) /\ UNCHANGED <<inbound, wire, dispatched>>
            [] ev.t = "frame" /\ m.ok /\ m.op = "HeartbeatAck" ->
                  \E debug \in BOOLEAN :
                     IF debug /\ task[w].heartbeat_instants[1] = None
                     THEN Panic(w, UnwrapNone) /\ UNCHANGED <<inbound, wire, dispatched>>
                     ELSE /\ task' = [task EXCEPT
                                        ![w].last_heartbeat_acknowledged = TRUE,
                                        ![w].heartbeat_instants[2] = Some(task[w].now)]
                          /\ UNCHANGED <<outbound, inbound, wire, dispatched>>
            [] ev.t = "frame" /\ m.ok /\ m.op = "Heartbeat" ->
                  /\ WireRoom
                  /\ \E ok \in BOOLEAN :
                        IF ok THEN Write(to_string("Heartbeat", m.d))
                              ELSE UNCHANGED wire
                  /\ UNCHANGED <<task, outbound, inbound, dispatched>>
            [] ev.t = "frame" /\ m.ok /\ m.op = "Dispatch" ->
                  /\ DispatchRoom
                  /\ SendInbound(w, "deliver", value_to_string(m.d))
                  /\ dispatched' = Append(dispatched, value_to_string(m.d))
                  /\ UNCHANGED wire
            [] OTHER ->
                  UNCHANGED <<task, outbound, inbound, wire, dispatched>>
    /\ UNCHANGED CallerSide

SelectInbound(w) == \E ev \in Events(Len(dispatched) + 1) : Inbound(w, ev)

\* the suspended sender_inbound.send(text).await is polled again
ResumeInbound(w) ==
    /\ task[w].pc \in {"deliver", "sentinel"}
    /\ ~Held(w) \/ Len(inbound) < 1
    /\ SendInbound(w, task[w].pc, task[w].pending[1])
    /\ UNCHANGED <<wire, dispatched>>
    /\ UNCHANGED CallerSide

\* select branch 2: receiver_outbound.recv() yielded a message; it is written
\* to the transport, and a failed write panics
SelectOutbound(w) ==
    /\ task[w].pc = "loop"
    /\ outbound # << >>
    /\ WireRoom
    /\ \E ok \in BOOLEAN :
          IF ok
          THEN /\ Write(Head(outbound))
               /\ outbound' = Tail(outbound)
               /\ UNCHANGED task
          ELSE Panic(w, "Error sending message") /\ UNCHANGED wire
    /\ UNCHANGED <<inbound, dispatched>>
    /\ UNCHANGED CallerSide

\* branch 3 without line 177: the flag is left as the tick found it
SelectTick_FlagKept(w) ==
    /\ task[w].pc = "loop"
    /\ task[w].now >= task[w].deadline
    /\ WireRoom
    /\ \E ok \in BOOLEAN :
          IF ok
          THEN /\ task' = [task EXCEPT
                             ![w].heartbeat_instants = <<Some(task[w].now), None>>,
                             ![w].deadline = @ + task[w].period]
               /\ Write(to_string("Heartbeat", None))
               /\ UNCHANGED outbound
          ELSE Panic(w, "Error sending heartbeat") /\ UNCHANGED wire
    /\ UNCHANGED <<inbound, dispatched>>
    /\ UNCHANGED CallerSide

\* select branch 3: interval.tick() is due
SelectTick(w) ==
    /\ task[w].pc = "loop"
    /\ task[w].now >= task[w].deadline
    /\ WireRoom
    /\ \E ok \in BOOLEAN :
          IF ok
          THEN /\ task' = [task EXCEPT
                             ![w].last_heartbeat_acknowledged =
                                 IF ~task[w].last_heartbeat_acknowledged THEN @ ELSE FALSE,
                             ![w].heartbeat_instants = <<Some(task[w].now), None>>,
                             ![w].deadline = @ + task[w].period]
               /\ Write(to_string("Heartbeat", None))
               /\ UNCHANGED outbound
          ELSE Panic(w, "Error sending heartbeat") /\ UNCHANGED wire
    /\ UNCHANGED <<inbound, dispatched>>
    /\ UNCHANGED CallerSide

\* a task that connect() left detached keeps running on its own channels and
\* transport, out of the handle's reach: of its further steps only the frames
\* it writes are kept
DetachedStep(w) ==
    /\ task[w].pc = "detached"
    /\ stray < MaxStray
    /\ stray' = stray + 1
    /\ UNCHANGED task
    /\ UNCHANGED handle
    /\ UNCHANGED <<outbound, inbound, wire, accepted, dispatched, returned, last>>

\* ------------------------------------------------------------- the handle
\* update_token(token)
update_token ==
    /\ \E token \in Tokens : auth' = Some(AuthParams(token))
    /\ last' = "Ok"
    /\ UNCHANGED <<thread, channels, last_heartbeat_acknowledged, heartbeat_instants>>
    /\ UNCHANGED <<task, outbound, inbound, wire, accepted, dispatched, returned,
                   stray>>

\* a task starting from the Default value of the heartbeat flag
Spawn_DefaultFlag(sa, ack, instants) ==
    [pc |-> "connecting", socket_auth |-> sa,
     last_heartbeat_acknowledged |-> FALSE, heartbeat_instants |-> instants,
     period |-> 0, deadline |-> 0, now |-> 0, pending |-> None, end |-> ""]

\* the task spawned by connect(): it captures socket_auth and, by value, the
\* handle's heartbeat fields
Spawn(sa, ack, instants) ==
    [pc |-> "connecting", socket_auth |-> sa,
     last_heartbeat_acknowledged |-> ack, heartbeat_instants |-> instants,
     period |-> 0, deadline |-> 0, now |-> 0, pending |-> None, end |-> ""]

\* connect(): two new channels replace the handle's endpoints, a new task is
\* spawned and stored over the previous JoinHandle (whose task, if it still
\* runs, is left detached), and Ok(self) is returned without waiting
connect ==
    /\ \E w \in Workers :
          /\ task[w].pc = "unspawned"
          /\ \A v \in Workers : v < w => task[v].pc # "unspawned"
          /\ channels' = Some(w)
          /\ task' = [v \in Workers |->
                        IF v = w
                        THEN Spawn(auth, last_heartbeat_acknowledged, heartbeat_instants)
                        ELSE IF Followed(v) THEN Dropped("detached", "")
                        ELSE IF task[v].pc = "terminated" THEN Dropped("terminated", "")
                        ELSE task[v]]
          /\ thread' = Some(w)
    /\ outbound' = << >>
    /\ inbound' = << >>
    /\ wire' = << >>
    /\ accepted' = << >>
    /\ dispatched' = << >>
    /\ returned' = << >>
    /\ last' = "Ok"
    /\ UNCHANGED <<auth, last_heartbeat_acknowledged, heartbeat_instants, stray>>

\* recieve_message with try_recv() in place of recv().await: None whenever
\* nothing is buffered
recieve_message_NoWait ==
    /\ IF channels = None
       THEN /\ last' = "None"
            /\ UNCHANGED <<inbound, returned>>
       ELSE IF inbound # << >>
            THEN /\ inbound' = Tail(inbound)
                 /\ returned' = Append(returned, Head(inbound))
                 /\ last' = "Ok"
            ELSE /\ last' = "None"
                 /\ UNCHANGED <<inbound, returned>>
    /\ UNCHANGED handle
    /\ UNCHANGED <<task, outbound, wire, accepted, dispatched, stray>>

\* recieve_message(): None without channels; otherwise recv().await yields the
\* buffered text, or None once the task (the only sender) is gone, and waits
\* in between
recieve_message ==
    /\ IF channels = None
       THEN /\ last' = "None"
            /\ UNCHANGED <<inbound, returned>>
       ELSE IF inbound # << >>
            THEN /\ inbound' = Tail(inbound)
                 /\ returned' = Append(returned, Head(inbound))
                 /\ last' = "Ok"
            ELSE /\ ~Running(channels[1])
                 /\ last' = "None"
                 /\ UNCHANGED <<inbound, returned>>
    /\ UNCHANGED handle
    /\ UNCHANGED <<task, outbound, wire, accepted, dispatched, stray>>

\* send_message on an unbounded outbound channel: it never waits for room
send_message_Unbounded ==
    /\ \E message \in {Command(Len(accepted) + 1)} :
          IF channels = None
          THEN /\ last' = "NotConnected"
               /\ UNCHANGED <<outbound, accepted>>
          ELSE IF ~Running(channels[1])
               THEN /\ last' = "SendError"
                    /\ UNCHANGED <<outbound, accepted>>
               ELSE /\ AcceptRoom
                    /\ outbound' = Append(outbound, message)
                    /\ accepted' = Append(accepted, message)
                    /\ last' = "Ok"
    /\ UNCHANGED handle
    /\ UNCHANGED <<task, inbound, wire, dispatched, returned, stray>>

\* send_message returning Ok(()) once the task has dropped the receiver
send_message_OkAfterEnd ==
    /\ \E message \in {Command(Len(accepted) + 1)} :
          IF channels = None
          THEN /\ last' = "NotConnected"
               /\ UNCHANGED <<outbound, accepted>>
          ELSE IF ~Running(channels[1])
               THEN /\ last' = "Ok"
                    /\ UNCHANGED <<outbound, accepted>>
               ELSE /\ Len(outbound) < 1
                    /\ AcceptRoom
                    /\ outbound' = Append(outbound, message)
                    /\ accepted' = Append(accepted, message)
                    /\ last' = "Ok"
    /\ UNCHANGED handle
    /\ UNCHANGED <<task, inbound, wire, dispatched, returned, stray>>

\* send_message returning Ok(()) without channels
send_message_Silent ==
    /\ \E message \in {Command(Len(accepted) + 1)} :
          IF channels = None
          THEN /\ last' = "Ok"
               /\ UNCHANGED <<outbound, accepted>>
          ELSE IF ~Running(channels[1])
               THEN /\ last' = "SendError"
                    /\ UNCHANGED <<outbound, accepted>>
               ELSE /\ Len(outbound) < 1
                    /\ AcceptRoom
                    /\ outbound' = Append(outbound, message)
                    /\ accepted' = Append(accepted, message)
                    /\ last' = "Ok"
    /\ UNCHANGED handle
    /\ UNCHANGED <<task, inbound, wire, dispatched, returned, stray>>

\* send_message(message): Err("Not connected") without channels; otherwise
\* send(text).await fails once the task dropped the receiver, and waits for
\* room in the outbound channel
send_message ==
    /\ \E message \in {Command(Len(accepted) + 1)} :
          IF channels = None
          THEN /\ last' = "NotConnected"
               /\ UNCHANGED <<outbound, accepted>>
          ELSE IF ~Running(channels[1])
               THEN /\ last' = "SendError"
                    /\ UNCHANGED <<outbound, accepted>>
               ELSE /\ Len(outbound) < 1
                    /\ AcceptRoom
                    /\ outbound' = Append(outbound, message)
                    /\ accepted' = Append(accepted, message)
                    /\ last' = "Ok"
    /\ UNCHANGED handle
    /\ UNCHANGED <<task, inbound, wire, dispatched, returned, stray>>

\* close() leaving the credentials in place
close_KeepsAuth ==
    /\ channels' = None
    /\ inbound' = IF channels # None THEN << >> ELSE inbound
    /\ IF thread # None
       THEN /\ task' = [task EXCEPT ![thread[1]] = Dropped("terminated", "")]
            /\ outbound' = << >>
       ELSE UNCHANGED <<task, outbound>>
    /\ thread' = None
    /\ heartbeat_instants' = <<None, None>>
    /\ last_heartbeat_acknowledged' = TRUE
    /\ last' = "Ok"
    /\ UNCHANGED <<auth, wire, accepted, dispatched, returned, stray>>

\* close(): the endpoints are dropped, the stored task is aborted, and the
\* credentials and heartbeat fields are reset
close ==
    /\ channels' = None
    /\ inbound' = IF channels # None THEN << >> ELSE inbound
    /\ IF thread # None
       THEN /\ task' = [task EXCEPT ![thread[1]] = Dropped("terminated", "")]
            /\ outbound' = << >>
       ELSE UNCHANGED <<task, outbound>>
    /\ thread' = None
    /\ auth' = None
    /\ heartbeat_instants' = <<None, None>>
    /\ last_heartbeat_acknowledged' = TRUE
    /\ last' = "Ok"
    /\ UNCHANGED <<wire, accepted, dispatched, returned, stray>>

\* ---------------------------------------------------------------- the clock
\* time passes for a task whose interval exists; task[w].now is its reading
\* of Instant::now(), counted from the creation of the interval
Advance(w) ==
    /\ task[w].pc \in {"identify", "loop", "deliver", "sentinel"}
    /\ task[w].now < MaxTime
    /\ task' = [task EXCEPT ![w].now = @ + 1]
    /\ UNCHANGED handle
    /\ UNCHANGED <<outbound, inbound, wire, accepted, dispatched, returned, stray, last>>

Next ==
    \/ update_token
    \/ connect
    \/ recieve_message
    \/ send_message
    \/ close
    \/ \E w \in Workers : Advance(w)
    \/ \E w \in Workers : OpenTransport(w)
    \/ \E w \in Workers : AwaitHello(w)
    \/ \E w \in Workers : Identify(w)
    \/ \E w \in Workers : SelectInbound(w)
    \/ \E w \in Workers : ResumeInbound(w)
    \/ \E w \in Workers : SelectOutbound(w)
    \/ \E w \in Workers : SelectTick(w)
    \/ \E w \in Workers : DetachedStep(w)

Spec == Init /\ [][Next]_vars

\* -------------------------------------------------------------- properties
\* the caller's commands among the texts written to the transport
CommandsWritten == SelectSeq(wire, LAMBDA text : text[1] = "cmd")

Handshaking == {"connecting", "await_hello", "identify"}

\* C1: connect() has returned Ok (the handle stores the task) only once the
\* task is past the handshake: the stored task is never still opening the
\* transport, awaiting Hello or identifying, nor ended by a failed handshake.
C1_ConnectAfterHandshake ==
    \A w \in Workers :
        thread = Some(w) =>
            /\ task[w].pc \notin Handshaking
            /\ task[w].end \notin {"Failed to connect to websocket",
                                   "Error reading from socket"}

\* C2: at every moment at most one task spawned by the handle is running;
\* connect() on a live handle spawns no second one.
C2_SingleWorker == Cardinality({w \in Workers : Running(w)}) <= 1

\* C3: send_message on a handle without channels (never connected, or closed)
\* returns the NotConnected error, puts nothing on the outbound channel and
\* changes neither the handle nor any task.
C3_SendNotConnected ==
    [][(channels = None /\ send_message) =>
          /\ last' = "NotConnected"
          /\ UNCHANGED <<outbound, accepted, task>>
          /\ UNCHANGED handle]_vars

\* a closed handle, after a session that had accepted a command, on which
\* send_message has just failed
C3_Witness ==
    /\ last = "NotConnected"
    /\ channels = None
    /\ accepted # << >>
    /\ task[1].pc = "terminated"

\* C4: every value recieve_message returned is the payload of a Dispatch
\* frame the task processed.
C4_OnlyDispatch ==
    \A i \in 1..Len(returned) :
        \E j \in 1..Len(dispatched) : dispatched[j] = returned[i]

\* C5: within a session the commands written to the transport are a prefix of
\* the commands send_message accepted, and the values recieve_message returned
\* are a prefix of the Dispatch payloads the task processed.
C5_Fifo ==
    LET IsPrefix(s, t) == Len(s) <= Len(t) /\ SubSeq(t, 1, Len(s)) = s IN
    /\ IsPrefix(CommandsWritten, accepted)
    /\ IsPrefix(returned, dispatched)

CloseFrame == [t |-> "frame", f |-> Close]

\* the handle holds the channels of a task that a Close frame ended
ClosedByRemote ==
    /\ channels # None
    /\ task[channels[1]].pc = "terminated"
    /\ task[channels[1]].end = "Socket closed unexpectedly"

\* C6: a Close frame read in the event loop ends the task; from then on
\* recieve_message never waits: it returns the values still buffered, in
\* order, and None once the buffer is empty.
C6_CloseThenNone ==
    [][/\ \A w \in Workers :
             task[w].pc = "loop" =>
                 /\ ENABLED Inbound(w, CloseFrame)
                 /\ ~ENABLED (Inbound(w, CloseFrame) /\ Running(w)')
                 /\ Inbound(w, CloseFrame) =>
                       /\ task'[w].end = "Socket closed unexpectedly"
                       /\ inbound' = inbound
       /\ ClosedByRemote =>
             /\ ENABLED recieve_message
             /\ recieve_message =>
                   IF inbound = << >>
                   THEN last' = "None" /\ returned' = returned
                   ELSE /\ last' = "Ok"
                        /\ returned' = Append(returned, Head(inbound))
                        /\ inbound' = Tail(inbound)]_vars

\* after a Close frame ended the task, the buffered Dispatch was returned and
\* the next recieve_message returned None
C6_Witness ==
    /\ ClosedByRemote
    /\ inbound = << >>
    /\ returned # << >>
    /\ returned = dispatched
    /\ last = "None"

\* C7: close() always completes and leaves the handle as new() creates it,
\* with no stored task running; on a handle that is already so it changes
\* nothing but that.
C7_CloseResets ==
    [][/\ ENABLED close
       /\ close =>
             /\ handle' = NewHandle
             /\ \A w \in Workers : thread = Some(w) => ~Running(w)'
             /\ handle = NewHandle =>
                   UNCHANGED <<task, outbound, inbound, wire, accepted,
                               dispatched, returned, stray>>]_vars

\* a handle with credentials and a session that exchanged messages, closed
C7_Witness ==
    /\ handle = NewHandle
    /\ task[1].pc = "terminated"
    /\ accepted # << >>
    /\ wire # << >>
    /\ last = "Ok"
    /\ stray = 0
    /\ task[2].pc = "unspawned"

\* C8: the session that connect() starts on a closed handle begins like the
\* first one: its task starts with last_heartbeat_acknowledged = TRUE and no
\* heartbeat instants, both channels are empty, and nothing of the previous
\* session is on its transport or returned by its recieve_message.
C8_FreshSession ==
    [][(handle[2] = None /\ handle[3] = None /\ connect) =>
          /\ \A w \in Workers :
                thread' = Some(w) =>
                    /\ task'[w].pc = "connecting"
                    /\ task'[w].last_heartbeat_acknowledged = TRUE
                    /\ task'[w].heartbeat_instants = <<None, None>>
                    /\ task'[w].socket_auth = auth
          /\ outbound' = << >>
          /\ inbound' = << >>
          /\ wire' = << >>
          /\ accepted' = << >>
          /\ returned' = << >>
          /\ dispatched' = << >>]_vars

\* a second session, started after close(), whose task reached the event loop
C8_Witness ==
    /\ task[1].pc = "terminated"
    /\ thread = Some(2)
    /\ task[2].pc = "loop"
    /\ wire # << >>

\* C9: the task writes at most one Identify to the transport, and writes no
\* Heartbeat before it.
C9_IdentifyFirst ==
    /\ Cardinality({i \in 1..Len(wire) : wire[i][1] = "Identify"}) <= 1
    /\ \A i \in 1..Len(wire) :
          wire[i][1] = "Heartbeat" =>
              \E j \in 1..(i - 1) : wire[j][1] = "Identify"

\* C10: every Identify written to the transport carries credentials, never
\* an absent payload.
C10_IdentifyCarriesCredentials ==
    \A i \in 1..Len(wire) :
        wire[i][1] = "Identify" => wire[i] # to_string("Identify", None)

\* the untagged Heartbeat frames written in the session: those of the timer
Heartbeats == Len(SelectSeq(wire, LAMBDA text : text = to_string("Heartbeat", None)))

\* the task is past the handshake's first message: its interval exists
Armed(w) == Followed(w) /\ task[w].pc \in {"identify", "loop", "deliver", "sentinel"}

\* C11: the interval's first tick is consumed in the handshake without a
\* write and every tick handled in the event loop writes one untagged
\* Heartbeat: with k ticks handled (the next one is due at k periods after the
\* interval was created on Hello) k - 1 heartbeats have been written, and the
\* i-th of them no earlier than i periods after the interval was created.
C11_HeartbeatCadence ==
    \A w \in Workers :
        Armed(w) =>
            /\ task[w].deadline = (Heartbeats + 1) * task[w].period
            /\ Heartbeats * task[w].period <= task[w].now

\* the task handled the tick that followed the consumed one: one heartbeat
\* written, one period after the interval was created
C11_Witness ==
    \E w \in Workers :
        /\ Armed(w)
        /\ task[w].pc = "loop"
        /\ Heartbeats = 1
        /\ task[w].deadline = 2 * task[w].period
        /\ task[w].now >= task[w].period

AckFrame == [t |-> "frame", f |-> Text(to_string("HeartbeatAck", None))]

\* the latency logged by the HeartbeatAck arm: acked_at - sent_at
Latency(instants) == instants[2][1] - instants[1][1]

\* C12: a HeartbeatAck processed after a heartbeat was sent sets
\* last_heartbeat_acknowledged, stores the current instant as acked_at, keeps
\* sent_at, and the latency acked_at - sent_at is not negative.
C12_AckRecorded ==
    [][\A w \in Workers :
          (task[w].pc = "loop" /\ task[w].heartbeat_instants[1] # None) =>
              /\ ENABLED Inbound(w, AckFrame)
              /\ ~ENABLED (/\ Inbound(w, AckFrame)
                           /\ ~(/\ task'[w].pc = "loop"
                                /\ task'[w].last_heartbeat_acknowledged
                                /\ task'[w].heartbeat_instants =
                                      <<task[w].heartbeat_instants[1], Some(task[w].now)>>
                                /\ Latency(task'[w].heartbeat_instants) >= 0))]_vars

\* a heartbeat was sent and its HeartbeatAck processed
C12_Witness ==
    \E w \in Workers :
        /\ task[w].pc = "loop"
        /\ Heartbeats = 1
        /\ task[w].last_heartbeat_acknowledged
        /\ task[w].heartbeat_instants[1] # None
        /\ task[w].heartbeat_instants[2] # None
        /\ Latency(task[w].heartbeat_instants) >= 0

HeartbeatFrame(tag) == [t |-> "frame", f |-> Text(to_string("Heartbeat", Some(tag)))]

\* C13: handling a Heartbeat with tag t from the server writes, as the next
\* frame on the transport, a Heartbeat with the same tag, changes nothing of
\* the task's heartbeat state and pushes nothing onto the inbound channel.
C13_EchoSameTag ==
    \A w \in Workers : \A tag \in Tags :
        (task[w].pc = "loop" /\ WireRoom) =>
            ~ENABLED (/\ Inbound(w, HeartbeatFrame(tag))
                      /\ ~(/\ wire' = Append(wire, to_string("Heartbeat", Some(tag)))
                           /\ task' = task
                           /\ inbound' = inbound))

\* the handle holds the channels of a task that has ended
Orphaned == channels # None /\ ~Running(channels[1])

\* C14: once the task has ended, send_message completes with an error and
\* queues nothing, and recieve_message completes: with the next buffered
\* value, or with None when the buffer is empty.
C14_AfterTermination ==
    Orphaned =>
        /\ ENABLED send_message
        /\ ~ENABLED (/\ send_message
                     /\ ~(last' = "SendError" /\ UNCHANGED <<outbound, accepted>>))
        /\ ENABLED recieve_message
        /\ ~ENABLED (/\ recieve_message
                     /\ ~(IF inbound = << >>
                          THEN last' = "None" /\ returned' = returned
                          ELSE /\ last' = "Ok"
                               /\ returned' = Append(returned, Head(inbound))
                               /\ inbound' = Tail(inbound)))

\* a failed write ended the task, and the send_message that followed failed
C14_Witness ==
    /\ Orphaned
    /\ task[channels[1]].end = "Error sending message"
    /\ last = "SendError"
    /\ accepted # << >>

TextEvent(e) == [t |-> "frame", f |-> Text(e)]
BinaryEvent(e) == [t |-> "frame", f |-> Binary(Deflate(e))]

\* parse_message::<T> gives for the Binary frame of e what it gives for the
\* Text frame of e: the same message, or a panic for both
SameParse(e, T) ==
    LET text == parse_with(Text(e), T)
        binary == parse_with(Binary(Deflate(e)), T)
    IN  /\ binary.ok = text.ok
        /\ text.ok => binary = text

Task(w) ==
    \/ OpenTransport(w)
    \/ AwaitHello(w)
    \/ Identify(w)
    \/ SelectInbound(w)
    \/ ResumeInbound(w)
    \/ SelectOutbound(w)
    \/ SelectTick(w)

\* C16: a task that has received Hello is never held up for good in sending
\* Identify: the send can complete, or a step of the task makes room for it
\* in the outbound channel.
C16_IdentifyProceeds ==
    \A w \in Workers :
        task[w].pc = "identify" =>
            \/ ENABLED Identify(w)
            \/ ENABLED (Task(w) /\ Len(outbound') < 1)

\* C17: while a Dispatch payload waits for room in the inbound channel the
\* task still writes a queued outbound message and still writes the heartbeat
\* of a tick that is due.
C17_OtherBranchesRun ==
    \A w \in Workers :
        (task[w].pc = "deliver" /\ WireRoom) =>
            /\ outbound # << >> =>
                  ENABLED (Task(w) /\ wire' = Append(wire, Head(outbound)))
            /\ task[w].now >= task[w].deadline =>
                  ENABLED (Task(w) /\ wire' = Append(wire, to_string("Heartbeat", None)))

\* C18: a first message whose op is not Hello ends the task: it does not go
\* on to identify, with an interval armed.
C18_FirstMustBeHello ==
    \A w \in Workers :
        task[w].pc = "await_hello" =>
            \A e \in FirstEnvelopes :
                e[1] # "Hello" =>
                    ~ENABLED (FirstMessage(w, TextEvent(e)) /\ Running(w)')

\* C19: in the event loop sent_at is present when a HeartbeatAck is
\* processed, and processing it never ends the task.
C19_AckNeverFails ==
    \A w \in Workers :
        task[w].pc = "loop" =>
            ~ENABLED (/\ Inbound(w, AckFrame)
                      /\ \/ task[w].heartbeat_instants[1] = None
                         \/ ~Running(w)')

\* C20: a failed write is fatal whichever branch made it: no step that was to
\* write a caller's message, a timer heartbeat or the echo of a server
\* heartbeat leaves the transport without the frame and the task running.
C20_WriteFailureFatal ==
    \A w \in Workers :
        (task[w].pc = "loop" /\ WireRoom) =>
            /\ ~ENABLED (SelectOutbound(w) /\ wire' = wire /\ Running(w)')
            /\ ~ENABLED (SelectTick(w) /\ wire' = wire /\ Running(w)')
            /\ \A tag \in Tags :
                  ~ENABLED (/\ Inbound(w, HeartbeatFrame(tag))
                            /\ wire' = wire
                            /\ Running(w)')

\* a tick is due for a task in its event loop
TickDue(w) == task[w].pc = "loop" /\ task[w].now >= task[w].deadline /\ WireRoom

\* C21: a tick handled in the event loop, whatever the flag was before it,
\* leaves last_heartbeat_acknowledged false, sent_at at the current instant,
\* acked_at absent and one more untagged Heartbeat written; a tick that finds
\* the flag false does nothing else: the task stays in its event loop.
C21_TickEffect ==
    \A w \in Workers :
        TickDue(w) =>
            /\ ENABLED (SelectTick(w) /\ task'[w].pc = "loop")
            /\ ~ENABLED (/\ SelectTick(w)
                         /\ Running(w)'
                         /\ ~(/\ task'[w].pc = "loop"
                              /\ ~task'[w].last_heartbeat_acknowledged
                              /\ task'[w].heartbeat_instants = <<Some(task[w].now), None>>
                              /\ wire' = Append(wire, to_string("Heartbeat", None))
                              /\ UNCHANGED <<outbound, inbound>>))

\* one tick was handled, leaving the flag false and sent_at set, no
\* HeartbeatAck followed, and the next tick is due: it finds the flag false
C21_Witness ==
    \E w \in Workers :
        /\ TickDue(w)
        /\ Heartbeats = 1
        /\ ~task[w].last_heartbeat_acknowledged
        /\ task[w].heartbeat_instants = <<Some(1), None>>
        /\ task[w].now = 2

ErrEvent == [t |-> "err", f |-> Close]

\* the heartbeat state of task w
Bookkeeping(w) == <<task[w].last_heartbeat_acknowledged, task[w].heartbeat_instants,
                    task[w].period, task[w].deadline>>

\* C22: on a read error in the event loop the task pushes one "null" onto
\* the inbound channel (at once, or once the channel has room) and goes on
\* with its loop: it does not end, writes nothing to the transport and keeps
\* its heartbeat state.
C22_ReadErrorSentinel ==
    \A w \in Workers :
        /\ (task[w].pc = "loop" /\ DispatchRoom) =>
              /\ ENABLED Inbound(w, ErrEvent)
              /\ ~ENABLED (/\ Inbound(w, ErrEvent)
                           /\ ~(/\ wire' = wire
                                /\ Bookkeeping(w)' = Bookkeeping(w)
                                /\ IF Len(inbound) < 1
                                   THEN /\ inbound' = Append(inbound, JNull)
                                        /\ task'[w].pc = "loop"
                                   ELSE /\ inbound' = inbound
                                        /\ task'[w].pc = "sentinel"
                                        /\ task'[w].pending = Some(JNull)))
        /\ task[w].pc = "sentinel" =>
              /\ task[w].pending = Some(JNull)
              /\ inbound = << >> => ENABLED ResumeInbound(w)
              /\ ~ENABLED (/\ ResumeInbound(w)
                           /\ ~(/\ wire' = wire
                                /\ Bookkeeping(w)' = Bookkeeping(w)
                                /\ inbound' = Append(inbound, JNull)
                                /\ task'[w].pc = "loop"))

\* a read error met a full inbound channel, the caller took the buffered
\* value, the "null" followed it, and the task is in its event loop
C22_Witness ==
    \E w \in Workers :
        /\ task[w].pc = "loop"
        /\ dispatched = <<Payload(1)>>
        /\ returned = <<Payload(1)>>
        /\ inbound = <<JNull>>

\* frames that parse_message::<SocketMessage<Value>> cannot decode
Undecodable ==
    {Text(<<"{">>),
     Binary(Deflate(<<"{">>)),
     Binary(Truncate(Deflate(to_string("Dispatch", Some(Payload(1))))))}

\* C23: a frame that cannot be decoded ends the task in the event loop:
\* nothing is pushed onto the inbound channel for it, and the task's end of
\* the channel is dropped.
C23_DecodeFailureFatal ==
    \A w \in Workers :
        task[w].pc = "loop" =>
            \A f \in Undecodable :
                /\ ENABLED Inbound(w, [t |-> "frame", f |-> f])
                /\ ~ENABLED (/\ Inbound(w, [t |-> "frame", f |-> f])
                             /\ ~(/\ ~Running(w)'
                                  /\ task'[w].end \in {"Failed to parse message",
                                                       "Failed to deflate message",
                                                       "Failed to read message"}
                                  /\ inbound' = inbound
                                  /\ wire' = wire))

\* a truncated zlib stream ended a task that had written to its transport
C23_Witness ==
    /\ Orphaned
    /\ task[channels[1]].end = "Failed to read message"
    /\ wire # << >>

\* C24: a Close frame, or a frame that is neither Text nor Binary, ends the
\* task in the event loop, and an ended task takes no further step: it writes
\* no frame and pushes nothing.
C24_OtherKindsFatal ==
    \A w \in Workers :
        /\ task[w].pc = "loop" =>
              \A f \in {Close, Ping} :
                  /\ ENABLED Inbound(w, [t |-> "frame", f |-> f])
                  /\ ~ENABLED (/\ Inbound(w, [t |-> "frame", f |-> f])
                               /\ ~(/\ task'[w].pc = "terminated"
                                    /\ inbound' = inbound
                                    /\ wire' = wire))
        /\ task[w].pc = "terminated" => ~ENABLED Task(w)

\* a frame of another kind ended a task that had written to its transport
C24_Witness ==
    /\ Orphaned
    /\ task[channels[1]].end = "received unexpected message type"
    /\ wire # << >>

\* the envelopes of the ops that branch 1 has no arm for
OtherOps(k) == {e \in Envelopes(k) : e[1] \in OpCodes \ {"HeartbeatAck", "Heartbeat", "Dispatch"}}

\* C25: in the event loop a message whose op is Hello or Identify changes
\* nothing: the task stays in its loop, writes nothing, pushes nothing and
\* keeps its heartbeat state.
C25_OtherOpsIgnored ==
    \A w \in Workers :
        task[w].pc = "loop" =>
            \A e \in OtherOps(Len(dispatched) + 1) :
                /\ ENABLED Inbound(w, TextEvent(e))
                /\ ~ENABLED (Inbound(w, TextEvent(e)) /\ ~UNCHANGED vars)

\* a task in its event loop with a heartbeat outstanding and a value
\* buffered, to which a second Hello and an Identify can come
C25_Witness ==
    \E w \in Workers :
        /\ task[w].pc = "loop"
        /\ Heartbeats = 1
        /\ ~task[w].last_heartbeat_acknowledged
        /\ inbound # << >>
        /\ {e[1] : e \in OtherOps(Len(dispatched) + 1)} = {"Hello", "Identify"}

\* the handle is as close() leaves it: no stored task, no channels
Closed == thread = None /\ channels = None

\* C26: close() writes no frame to the transport, and while the handle is
\* closed no task that it spawned takes a step: none writes a frame or pushes
\* a payload.
C26_CloseAbrupt ==
    /\ ~ENABLED (close /\ (wire' # wire \/ stray' # stray))
    /\ Closed => \A w \in Workers : ~ENABLED Task(w) /\ ~ENABLED DetachedStep(w)

\* the session is live: the handle holds the channels of a running task
Live == channels # None /\ Running(channels[1])

\* C27: the outbound and the inbound channel each hold at most one message;
\* a send_message that returns Ok(()) found the outbound channel empty and
\* left its message in it; while the channel holds a message of a live
\* session send_message waits and changes nothing.
C27_CapacityOne ==
    /\ Len(outbound) <= 1
    /\ Len(inbound) <= 1
    /\ ~ENABLED (/\ send_message
                 /\ last' = "Ok"
                 /\ ~(/\ outbound = << >>
                      /\ outbound' = <<Command(Len(accepted) + 1)>>
                      /\ accepted' = Append(accepted, Command(Len(accepted) + 1))))
    /\ (Live /\ outbound # << >>) => ~ENABLED send_message
    /\ (Live /\ outbound = << >> /\ AcceptRoom) => ENABLED (send_message /\ last' = "Ok")

\* both channels hold a message: the command send_message accepted last, and
\* a value not yet returned
C27_Witness ==
    /\ Live
    /\ Len(inbound) = 1
    /\ accepted # << >>
    /\ outbound = <<accepted[Len(accepted)]>>

EndEvent == [t |-> "end", f |-> Close]

\* C28: the end of the inbound stream, read in the event loop, changes
\* nothing: the task stays in its loop with its end of the inbound channel,
\* so that a recieve_message of its session does not return None, and it
\* still handles a tick that is due and a queued outbound message.
C28_EndOfStreamIgnored ==
    /\ \A w \in Workers :
          task[w].pc = "loop" =>
              /\ ENABLED Inbound(w, EndEvent)
              /\ ~ENABLED (Inbound(w, EndEvent) /\ ~UNCHANGED vars)
              /\ TickDue(w) => ENABLED SelectTick(w)
              /\ (outbound # << >> /\ WireRoom) => ENABLED SelectOutbound(w)
    /\ Live => ~ENABLED (recieve_message /\ last' = "None")

\* a task in its event loop, where the stream can end, with a tick due, a
\* command queued and nothing buffered for a recieve_message
C28_Witness ==
    \E w \in Workers :
        /\ Held(w)
        /\ TickDue(w)
        /\ outbound # << >>
        /\ inbound = << >>
        /\ EndEvent \in Events(Len(dispatched) + 1)

\* C29: for a task in its event loop, last_heartbeat_acknowledged = FALSE
\* implies that sent_at is present, and acked_at present implies
\* last_heartbeat_acknowledged = TRUE and sent_at present and not later than
\* acked_at.
C29_BookkeepingConsistent ==
    \A w \in Workers :
        task[w].pc \in {"loop", "deliver", "sentinel"} =>
            LET sent_at == task[w].heartbeat_instants[1]
                acked_at == task[w].heartbeat_instants[2]
            IN  /\ ~task[w].last_heartbeat_acknowledged => sent_at # None
                /\ acked_at # None =>
                      /\ task[w].last_heartbeat_acknowledged
                      /\ sent_at # None
                      /\ acked_at[1] >= sent_at[1]

====
